---- MODULE Spec2Model ----
(***************************************************************************)
(* Speech Commands pre-processing (heareval/tasks/speech_commands.py).     *)
(*                                                                         *)
(* A file or folder name is a sequence of tokens (pieces of its text), so  *)
(* that prefix globs, extension tests and the "-nohash-" marker can be     *)
(* decided on it; a path is a sequence of names.  A value of the relpath   *)
(* column is a record [kind, parts]: kind tells a Python str from a        *)
(* pathlib.Path, which never compare equal.                                *)
(***************************************************************************)
EXTENDS Integers, Sequences, FiniteSets, Bags, TLC

VARIABLES
    input,              \* the extracted corpora: read-only for every stage
    work,               \* GenerateTrainDataset's working directory
    pc,                 \* position in the pipeline
    background_audio,   \* run(): recordings still to be sliced
    completed,          \* mark_complete() has been called
    runs,               \* how many times run() has been started
    snap,               \* the working directory when run() first completed
    table,              \* the data frame get_split_paths / get_process_metadata return
    hashmemo,           \* filename_to_int_hash, as far as it has been evaluated
    keyLog,             \* results of an earlier and a later get_subsample_key call
    proc                \* the process the calls are made in

vars == <<input, work, pc, background_audio, completed, runs, snap, table,
          hashmemo, keyLog, proc>>

----------------------------------------------------------------------------
(* Bounds of the model *)

MaxLen == 8
MaxRate == 4
MaxRuns == 2
MaxValLines == 2
MaxTestLines == 1
MaxSlugLen == 3
MaxHash == 1

----------------------------------------------------------------------------
(* Sequences *)

Last(s) == s[Len(s)]

Front(s) == SubSeq(s, 1, Len(s) - 1)

Range(s) == {s[i] : i \in DOMAIN s}

SeqsUpTo(S, n) == UNION {[1..k -> S] : k \in 0..n}

SeqToBag(s) == [e \in Range(s) |-> Cardinality({i \in DOMAIN s : s[i] = e})]

----------------------------------------------------------------------------
(* Module constants, speech_commands.py lines 19-22 *)

WORDS ==
    {<<"down">>, <<"go">>, <<"left">>, <<"no">>, <<"off">>, <<"on">>,
     <<"right">>, <<"stop">>, <<"up">>, <<"yes">>}

BACKGROUND_NOISE == <<"_", "background_noise", "_">>

UNKNOWN == <<"_", "unknown", "_">>

SILENCE == <<"_", "silence", "_">>

----------------------------------------------------------------------------
(* os.path and glob on token names *)

IsExt(tok) == tok \in {".wav", ".md", ".txt"}

\* os.path.splitext(basename): (name, ext)
splitext(b) ==
    IF Len(b) > 1 /\ IsExt(Last(b)) THEN <<Front(b), Last(b)>> ELSE <<b, "">>

\* the pattern *.wav
MatchWav(b) == Len(b) > 0 /\ Last(b) = ".wav"

\* the pattern running_tap*.wav
MatchRunningTapWav(b) == MatchWav(b) /\ b[1] = "running_tap"

\* the pattern [!_]* on a folder name
MatchNotUnderscore(d) == Len(d) > 0 /\ d[1] # "_"

TESTING_LIST == <<"testing_list", ".txt">>

VALIDATION_LIST == <<"validation_list", ".txt">>

ROOT == <<"/">>

\* self.requires()["train"].workdir of ExtractMetadata: GenerateTrainDataset's workdir
TrainWorkdir == <<ROOT, <<"generate">>>>

\* Path(self.requires()["test"].workdir).joinpath("test")
TestPath == <<ROOT, <<"download">>, <<"test">>>>

isabs(p) == Len(p) > 0 /\ p[1] = ROOT

\* os.path.join(a, p): an absolute p discards a
os_path_join(a, p) == IF isabs(p) THEN p ELSE a \o p

StrOf(parts) == [kind |-> "str", parts |-> parts]

PathOf(parts) == [kind |-> "Path", parts |-> parts]

----------------------------------------------------------------------------
(* GenerateTrainDataset.run *)

RECURSIVE range(_, _, _)
\* Python's range(start, stop, step) for step > 0
range(start, stop, step) ==
    IF start < stop THEN <<start>> \o range(start + step, stop, step) ELSE <<>>

SliceStop_Inclusive(len, sr) == len - sr + 1

\* the stop of the slicing range, line 73
SliceStop(len, sr) == len - sr

\* line 73: the starts of the segments of one recording
SegmentStarts(f) == range(0, SliceStop(f.len, f.sr), f.sr \div 2)

\* lines 70-71, 75: f"{name}-{start}{ext}"
ClipName(f, start) ==
    LET ne == splitext(f.base)
    IN  ne[1] \o <<"-", ToString(start), ne[2]>>

\* lines 73-77: the clips written for one recording
ClipsOf(f) ==
    {[file |-> ClipName(f, SegmentStarts(f)[i]), src |-> f.base,
      start |-> SegmentStarts(f)[i], sr |-> f.sr] : i \in DOMAIN SegmentStarts(f)}

\* sf.write replaces a file of the same name
WriteClips(clips, new) ==
    {c \in clips : \A n \in new : n.file # c.file} \cup new

\* line 58: train_path.glob("_background_noise_/*.wav")
GlobBackground == {f \in input.bg : MatchWav(f.base)}

AssertBackground_Skipped(ba) == TRUE

\* line 59
AssertBackground(ba) == Cardinality(ba) > 0

\* train_path.iterdir(), line 81
Entries ==
    {[name |-> d, is_dir |-> TRUE] : d \in input.dirs \cup {BACKGROUND_NOISE}}
    \cup (IF input.tlist.exists THEN {[name |-> TESTING_LIST, is_dir |-> FALSE]} ELSE {})
    \cup (IF input.vlist.exists THEN {[name |-> VALIDATION_LIST, is_dir |-> FALSE]} ELSE {})
    \cup {[name |-> <<"README", ".md">>, is_dir |-> FALSE]}

\* lines 82 and 88: the entries the loop links
Linked(e) ==
    \/ e.is_dir /\ e.name # BACKGROUND_NOISE
    \/ e.name \in {TESTING_LIST, VALIDATION_LIST}

\* unlink() of a real directory raises; the only one in the workdir is _silence_
UnlinkRaises(w, e) == w.silence_dir /\ e.name = SILENCE

unlink_Missing(links, e) == links

\* lines 84 and 90: unlink(missing_ok=True)
unlink(links, e) == {l \in links : l.name # e.name}

\* symlink_to raises FileExistsError when the name is taken
SymlinkRaises(links, e) == \E l \in links : l.name = e.name

\* lines 85 and 91
symlink_to(links, e) ==
    links \cup {[name |-> e.name, target |-> "source", is_dir |-> e.is_dir]}

\* one iteration of the loop of line 81 raises
LinkRaises(w, e) ==
    Linked(e) /\ (UnlinkRaises(w, e) \/ SymlinkRaises(unlink(w.links, e), e))

RECURSIVE LinkAll(_, _)
\* the links after the loop has linked every entry of es
LinkAll(links, es) ==
    IF es = {} THEN links
    ELSE LET e == CHOOSE x \in es : TRUE
         IN  LinkAll(symlink_to(unlink(links, e), e), es \ {e})

\* the workdir before the first run: empty, or holding links of an earlier corpus
InitialWork(in) ==
    [silence_dir |-> FALSE,
     clips |-> {},
     links |-> IF in.stale
               THEN {[name |-> <<"on">>, target |-> "stale", is_dir |-> TRUE],
                     [name |-> VALIDATION_LIST, target |-> "stale", is_dir |-> FALSE]}
               ELSE {}]

\* lines 57-59
RunGlob ==
    /\ pc = "run_start"
    /\ background_audio' = GlobBackground
    /\ pc' = IF AssertBackground(GlobBackground) THEN "run_makedirs" ELSE "failed"
    /\ UNCHANGED <<input, work, completed, runs, snap, table, hashmemo, keyLog, proc>>

\* lines 63-64
RunMakedirs ==
    /\ pc = "run_makedirs"
    /\ work' = [work EXCEPT !.silence_dir = TRUE]
    /\ pc' = "run_slice"
    /\ UNCHANGED <<input, background_audio, completed, runs, snap, table,
                   hashmemo, keyLog, proc>>

\* lines 67-77, one recording; range() raises ValueError for a step of 0
SliceRecording ==
    /\ pc = "run_slice"
    /\ \E f \in background_audio :
        IF f.sr \div 2 = 0
        THEN /\ pc' = "failed"
             /\ UNCHANGED <<work, background_audio>>
        ELSE /\ work' = [work EXCEPT !.clips = WriteClips(@, ClipsOf(f))]
             /\ background_audio' = background_audio \ {f}
             /\ pc' = "run_slice"
    /\ UNCHANGED <<input, completed, runs, snap, table, hashmemo, keyLog, proc>>

\* lines 81-91, the whole loop; when an iteration raises, the entries iterdir()
\* gave before it are linked already
RunLink ==
    /\ pc = "run_slice"
    /\ background_audio = {}
    /\ LET todo == {e \in Entries : Linked(e)}
           bad  == {e \in todo : LinkRaises(work, e)}
       IN  IF bad = {}
           THEN /\ work' = [work EXCEPT !.links = LinkAll(@, todo)]
                /\ pc' = "run_mark"
           ELSE \E before \in SUBSET (todo \ bad) :
                /\ work' = [work EXCEPT !.links = LinkAll(@, before)]
                /\ pc' = "failed"
    /\ UNCHANGED <<input, background_audio, completed, runs, snap, table,
                   hashmemo, keyLog, proc>>

\* line 93
RunMarkComplete ==
    /\ pc = "run_mark"
    /\ completed' = TRUE
    /\ pc' = "complete"
    /\ snap' = IF snap.taken THEN snap ELSE [taken |-> TRUE, work |-> work]
    /\ UNCHANGED <<input, work, background_audio, runs, table, hashmemo, keyLog, proc>>

\* the orchestrator runs the stage again on the same directories
Rerun ==
    /\ pc \in {"complete", "failed"}
    /\ runs < MaxRuns
    /\ runs' = runs + 1
    /\ pc' = "run_start"
    /\ UNCHANGED <<input, work, background_audio, completed, snap, table,
                   hashmemo, keyLog, proc>>

----------------------------------------------------------------------------
(* ExtractMetadata *)

dirname(p) == Front(p)

basename(p) == IF Len(p) = 0 THEN <<>> ELSE Last(p)

apply_label_WordsOnly(relative_path) ==
    LET label == basename(dirname(relative_path))
    IN  IF label \notin WORDS THEN UNKNOWN ELSE label

\* lines 107-111
apply_label(relative_path) ==
    LET label == basename(dirname(relative_path))
    IN  IF label \notin WORDS /\ label # SILENCE THEN UNKNOWN ELSE label

\* a data frame is a bag of rows; assign(split=...) gives every row the split
assign_split(relpaths, split) ==
    [r \in {[relpath |-> v, split |-> split] : v \in DOMAIN relpaths} |->
        relpaths[r.relpath]]

\* lines 144-147: test_path.glob("*/*.wav")
test_df ==
    assign_split(
        SetToBag({PathOf(TestPath \o t) : t \in {x \in input.test : MatchWav(x[2])}}),
        "test")

\* line 151: train_path.glob("_silence_/*.wav")
all_silence ==
    IF work.silence_dir
    THEN {PathOf(TrainWorkdir \o <<SILENCE, c.file>>) :
            c \in {x \in work.clips : MatchWav(x.file)}}
    ELSE {}

\* open() of a reference list in the workdir: the link must lead to the file
Readable(name, list) ==
    list.exists /\ \E l \in work.links : l.name = name /\ l.target = "source"

\* line 155: the lines of validation_list.txt
validation_paths == input.vlist.lines

\* line 161: train_path.glob("_silence_/running_tap*.wav")
val_silence ==
    IF work.silence_dir
    THEN {PathOf(TrainWorkdir \o <<SILENCE, c.file>>) :
            c \in {x \in work.clips : MatchRunningTapWav(x.file)}}
    ELSE {}

validation_rel_paths_Overwritten == SetToBag(val_silence)

\* lines 156 and 162
validation_rel_paths ==
    SeqToBag([i \in DOMAIN validation_paths |->
                StrOf(os_path_join(TrainWorkdir, validation_paths[i]))])
    (+) SetToBag(val_silence)

\* lines 163-165
validation_df == assign_split(validation_rel_paths, "valid")

\* line 169: the lines of testing_list.txt
train_test_paths == input.tlist.lines

\* lines 170-172: train_path.glob("[!_]*/*.wav"), relative to train_path; the
\* class folders are reached through the links run() made
audio_paths ==
    {x \in input.files :
        /\ MatchNotUnderscore(x[1])
        /\ MatchWav(x[2])
        /\ \E l \in work.links : l.name = x[1] /\ l.is_dir /\ l.target = "source"}

\* lines 176-178
train_paths == (audio_paths \ Range(train_test_paths)) \ Range(validation_paths)

\* line 183
train_silence == all_silence \ val_silence

train_rel_paths_Overwritten == SetToBag(train_silence)

\* lines 179 and 184
train_rel_paths ==
    SetToBag({StrOf(os_path_join(TrainWorkdir, p)) : p \in train_paths})
    (+) SetToBag(train_silence)

\* lines 185-187
train_df == assign_split(train_rel_paths, "train")

\* line 188: len(train_df.merge(validation_df, on="relpath")); relpath values
\* match by Python equality, under which a str never equals a Path
merge_len ==
    BagCardinality(
        [v \in DOMAIN train_rel_paths \cap DOMAIN validation_rel_paths |->
            train_rel_paths[v] * validation_rel_paths[v]])

\* lines 137-190
GetSplitPaths ==
    /\ pc = "complete"
    /\ IF ~Readable(VALIDATION_LIST, input.vlist) \/ ~Readable(TESTING_LIST, input.tlist)
       THEN pc' = "split_ioerror" /\ UNCHANGED table
       ELSE IF merge_len # 0
       THEN pc' = "split_assert" /\ UNCHANGED table
       ELSE pc' = "split_done" /\ table' = (test_df (+) validation_df) (+) train_df
    /\ UNCHANGED <<input, work, background_audio, completed, runs, snap,
                   hashmemo, keyLog, proc>>

\* lines 194-199: the label column; slug and subsample_key are further columns
\* computed row by row (get_subsample_key is modelled on its own below)
GetProcessMetadata ==
    /\ pc = "split_done"
    /\ table' =
         [r \in {[relpath |-> x.relpath, split |-> x.split,
                  label |-> apply_label(x.relpath.parts)] : x \in DOMAIN table} |->
            table[[relpath |-> r.relpath, split |-> r.split]]]
    /\ pc' = "meta_done"
    /\ UNCHANGED <<input, work, background_audio, completed, runs, snap,
                   hashmemo, keyLog, proc>>

----------------------------------------------------------------------------
(* ExtractMetadata.get_subsample_key *)

NOHASH == "-nohash-"

NoHashes == [t \in {} |-> 0]

\* luigi_util.filename_to_int_hash: a fixed function of the text, not seeded by
\* the process; its value on a text is settled the first time it is needed
HashValues(memo, text) ==
    IF text \in DOMAIN memo THEN {memo[text]} ELSE 0..MaxHash

Remember(memo, text, h) == IF text \in DOMAIN memo THEN memo ELSE memo @@ (text :> h)

SpeakerId_Unstripped(slug) == slug

\* line 128: re.sub(r"-nohash-.*$", "", slug)
SpeakerId(slug) ==
    IF \E i \in DOMAIN slug : slug[i] = NOHASH
    THEN SubSeq(slug, 1, (CHOOSE i \in DOMAIN slug :
                            /\ slug[i] = NOHASH
                            /\ \A j \in 1..(i - 1) : slug[j] # NOHASH) - 1)
    ELSE slug

\* the claims relate two calls: the log holds an earlier and a later one
CallPair == {"earlier", "later"}

\* lines 125-135, called on one slug
get_subsample_key ==
    /\ pc = "keys"
    /\ Len(keyLog) < Cardinality(CallPair)
    /\ \E slug \in SeqsUpTo({"x", NOHASH}, MaxSlugLen) \ {<<>>} :
       \E speaker_hash \in HashValues(hashmemo, SpeakerId(slug)) :
       \E filename_hash \in
            HashValues(Remember(hashmemo, SpeakerId(slug), speaker_hash), slug) :
          /\ hashmemo' = Remember(Remember(hashmemo, SpeakerId(slug), speaker_hash),
                                  slug, filename_hash)
          /\ keyLog' = Append(keyLog, [slug |-> slug, proc |-> proc,
                                       subsample_key |-> <<speaker_hash, filename_hash>>])
    /\ UNCHANGED <<input, work, pc, background_audio, completed, runs, snap, table, proc>>

\* the pipeline is started again in a new process
Restart ==
    /\ pc = "keys"
    /\ proc = "first"
    /\ proc' = "second"
    /\ UNCHANGED <<input, work, pc, background_audio, completed, runs, snap, table,
                   hashmemo, keyLog>>

----------------------------------------------------------------------------
(* Inputs *)

Wav(name) == name \o <<".wav">>

Rec(name, len, sr) == [base |-> Wav(name), len |-> len, sr |-> sr]

ReadmeMd == [base |-> <<"README", ".md">>, len |-> 0, sr |-> 0]

Audios ==
    {<<d, r>> : d \in 0..MaxLen, r \in 1..MaxRate}
    \cup {<<56000, 16000>>, <<16000, 16000>>, <<15999, 16000>>}

NoList == [exists |-> FALSE, lines |-> <<>>]

List(lines) == [exists |-> TRUE, lines |-> lines]

\* corpora that vary the background recordings
GenInputs ==
    [bg : {{}, {ReadmeMd}}
          \cup {{Rec(<<"pink_noise">>, a[1], a[2]), ReadmeMd} : a \in Audios}
          \cup {{Rec(<<"pink_noise">>, a[1], a[2]), Rec(<<"running_tap">>, 5, 2)} :
                  a \in Audios},
     dirs : {{<<"on">>}, {<<"on">>, <<"bed">>}, {<<"on">>, SILENCE}},
     files : {{<<<<"on">>, Wav(<<"a">>)>>}},
     tlist : {NoList, List(<<>>)},
     vlist : {List(<<>>)},
     test : {{}},
     stale : BOOLEAN]

OnA == <<<<"on">>, Wav(<<"a">>)>>

BedA == <<<<"bed">>, Wav(<<"a">>)>>

PinkClip0 == <<SILENCE, <<"pink_noise", "-", "0", ".wav">>>>

TapClip0 == <<SILENCE, <<"running_tap", "-", "0", ".wav">>>>

\* what a line of validation_list.txt may be
ValLines == {OnA, BedA, PinkClip0, TapClip0, TrainWorkdir \o OnA}

\* what a line of testing_list.txt may be
TestLines == {OnA, BedA}

\* corpora that vary the reference lists and the class files
SplitInputs ==
    [bg : {{Rec(<<"pink_noise">>, 3, 2), ReadmeMd},
           {Rec(<<"pink_noise">>, 3, 2), Rec(<<"running_tap">>, 3, 2)},
           {Rec(<<"pink_noise">>, 3, 2), Rec(<<"running_tap", "_2">>, 3, 2)},
           {Rec(<<"running_tap">>, 4, 2), Rec(<<"running_tap", "_2">>, 3, 2)}},
     dirs : {{<<"on">>, <<"bed">>, <<"_", "extra", "_">>}},
     files : {{<<<<"bed">>, <<"notes", ".txt">>>>,
               <<<<"_", "extra", "_">>, Wav(<<"a">>)>>} \cup S : S \in SUBSET {OnA, BedA}},
     tlist : {List(l) : l \in SeqsUpTo(TestLines, MaxTestLines)},
     vlist : {List(l) : l \in SeqsUpTo(ValLines, MaxValLines)},
     test : {{<<<<"on">>, Wav(<<"t">>)>>},
             {<<<<"on">>, Wav(<<"t">>)>>, <<UNKNOWN, Wav(<<"t">>)>>,
              <<SILENCE, Wav(<<"t">>)>>, <<<<"on">>, <<"notes", ".txt">>>>}},
     stale : {FALSE}]

----------------------------------------------------------------------------
(* Specifications *)

Init ==
    /\ input \in GenInputs \cup SplitInputs
    /\ work = InitialWork(input)
    /\ pc = "run_start"
    /\ background_audio = {}
    /\ completed = FALSE
    /\ runs = 1
    /\ snap = [taken |-> FALSE, work |-> InitialWork(input)]
    /\ table = EmptyBag
    /\ hashmemo = NoHashes
    /\ keyLog = <<>>
    /\ proc = "first"

Next ==
    \/ RunGlob
    \/ RunMakedirs
    \/ SliceRecording
    \/ RunLink
    \/ RunMarkComplete
    \/ Rerun
    \/ GetSplitPaths
    \/ GetProcessMetadata

Spec == Init /\ [][Next]_vars


NoInput ==
    [bg |-> {}, dirs |-> {}, files |-> {}, tlist |-> NoList, vlist |-> NoList,
     test |-> {}, stale |-> FALSE]

InitKey ==
    /\ input = NoInput
    /\ work = InitialWork(NoInput)
    /\ pc = "keys"
    /\ background_audio = {}
    /\ completed = FALSE
    /\ runs = 1
    /\ snap = [taken |-> FALSE, work |-> InitialWork(NoInput)]
    /\ table = EmptyBag
    /\ hashmemo = NoHashes
    /\ keyLog = <<>>
    /\ proc = "first"

NextKey ==
    \/ get_subsample_key
    \/ Restart

SpecKey == InitKey /\ [][NextKey]_vars


----------------------------------------------------------------------------
(* Claims about GenerateTrainDataset.run *)

\* the recordings the current or an earlier run has sliced
Sliced ==
    IF runs = 1 /\ pc = "run_start" THEN {} ELSE GlobBackground \ background_audio

StartsWritten(f) == {c.start : c \in {x \in work.clips : x.src = f.base}}

ClipFilesWritten(f) == {c.file : c \in {x \in work.clips : x.src = f.base}}

Max0(n) == IF n > 0 THEN n ELSE 0

\* max(0, floor((D - R) / (R/2)) + 1), the division by R/2 taken exactly
ClaimedCount(D, R) == Max0(((2 * (D - R)) \div R) + 1)

\* the number of multiples of R div 2 below D - R
SlicedCount(D, R) ==
    IF D > R THEN ((D - R) + (R \div 2) - 1) \div (R \div 2) ELSE 0

\* C2 as stated: every sliced recording of D samples at rate R has
\* max(0, floor((D - R) / (R/2)) + 1) clips, at offsets 0, R/2, 2*R/2, ...;
\* 3.5*R samples at R = 16000 give 6 clips, fewer than R samples give none.
C2_AsStated ==
    \A f \in Sliced :
        /\ Cardinality(ClipFilesWritten(f)) = ClaimedCount(f.len, f.sr)
        /\ (f.len = 56000 /\ f.sr = 16000 => Cardinality(ClipFilesWritten(f)) = 6)
        /\ (f.len < f.sr => ClipFilesWritten(f) = {})

\* C2 as amended: a sliced recording of D samples at rate R >= 2 has one clip
\* per multiple of R div 2 that is strictly below D - R, which makes
\* max(0, ceil((D - R) / (R div 2))) clips; 3.5*R samples at R = 16000 give the
\* 5 clips at 0, 8000, 16000, 24000, 32000, and D <= R samples give none.
C2_ClipCount ==
    \A f \in Sliced :
        /\ Cardinality(ClipFilesWritten(f)) = SlicedCount(f.len, f.sr)
        /\ StartsWritten(f) =
             {k * (f.sr \div 2) : k \in 0..(SlicedCount(f.len, f.sr) - 1)}
        /\ \A c \in work.clips :
             c.src = f.base => c.start + f.sr < f.len /\ c.file = ClipName(f, c.start)
        /\ (f.len = 56000 /\ f.sr = 16000 =>
              StartsWritten(f) = {0, 8000, 16000, 24000, 32000})
        /\ (f.len <= f.sr => ClipFilesWritten(f) = {})

C2_Witness ==
    /\ pc = "complete"
    /\ \E f \in Sliced : f.len = 56000 /\ f.sr = 16000 /\ Cardinality(StartsWritten(f)) = 5
    /\ \E f \in Sliced : f.len = 5 /\ f.sr = 2 /\ Cardinality(StartsWritten(f)) = 3

\* C6: when _background_noise_ holds no .wav recording, run creates nothing in
\* the working directory (no silence directory, no clip, no link) and never
\* calls mark_complete.
C6_AbortsWithoutOutput ==
    GlobBackground = {} =>
        /\ work = InitialWork(input)
        /\ ~work.silence_dir /\ work.clips = {}
        /\ ~completed
        /\ pc \in {"run_start", "failed"}

C6_Witness ==
    /\ pc = "failed"
    /\ GlobBackground = {}
    /\ input.bg # {}
    /\ runs = 2

\* the links a completed run leaves: one per class folder other than
\* _background_noise_, and one per reference list of the source directory
ExpectedLinks ==
    {[name |-> d, target |-> "source", is_dir |-> TRUE] : d \in input.dirs}
    \cup (IF input.tlist.exists
          THEN {[name |-> TESTING_LIST, target |-> "source", is_dir |-> FALSE]} ELSE {})
    \cup (IF input.vlist.exists
          THEN {[name |-> VALIDATION_LIST, target |-> "source", is_dir |-> FALSE]} ELSE {})

\* C9: once run has completed, running it again on the same directories never
\* fails, and when it has completed again the working directory holds the same
\* silence clips and the same links as after the first run, every link leading
\* to the source directory.
C9_RerunIdempotent ==
    snap.taken /\ runs >= 2 =>
        /\ pc # "failed"
        /\ work.clips = snap.work.clips
        /\ (pc \notin {"run_start", "run_makedirs", "run_slice", "run_mark"} =>
              /\ work = snap.work
              /\ work.links = ExpectedLinks)

C9_Witness ==
    /\ snap.taken /\ runs = 2 /\ pc = "complete"
    /\ input.stale
    /\ work.clips # {}
    /\ Cardinality(work.links) >= 3

----------------------------------------------------------------------------
(* Claims about ExtractMetadata.get_split_paths and get_process_metadata *)

\* get_split_paths has returned its table
Returned == pc \in {"split_done", "meta_done"}

Rows == BagToSet(table)

\* the splits the table gives to a path, whatever type its relpath value has
SplitsOf(parts) == {r.split : r \in {x \in Rows : x.relpath.parts = parts}}

\* every */*.wav under the test directory
TestAudio == {TestPath \o t : t \in {x \in input.test : MatchWav(x[2])}}

\* the set A: every */*.wav of the training directory whose folder does not
\* start with "_", relative to it
TrainAudio == {x \in input.files : x[1][1] # "_" /\ Last(x[2]) = ".wav"}

\* every generated silence clip
SilenceClips == {TrainWorkdir \o <<SILENCE, c.file>> : c \in work.clips}

InList(x, list) == \E i \in DOMAIN list.lines : list.lines[i] = x

\* C1 as stated: in the returned table every test wav, every wav of A (those
\* named in testing_list.txt included) and every silence clip has a split
\* among train, valid and test.
C1_AsStated ==
    Returned =>
        /\ \A r \in Rows : r.split \in {"train", "valid", "test"}
        /\ \A p \in TestAudio \cup SilenceClips \cup {TrainWorkdir \o a : a \in TrainAudio} :
             SplitsOf(p) # {}

\* C1 as amended: in the returned table every test wav, every silence clip and
\* every wav of A that testing_list.txt does not name or validation_list.txt
\* names has a split among train, valid and test.
C1_EveryKeptPathHasSplit ==
    Returned =>
        /\ \A r \in Rows : r.split \in {"train", "valid", "test"}
        /\ \A p \in TestAudio \cup SilenceClips : SplitsOf(p) # {}
        /\ \A a \in TrainAudio :
             (~InList(a, input.tlist) \/ InList(a, input.vlist))
                => SplitsOf(TrainWorkdir \o a) # {}

C1_Witness ==
    /\ Returned
    /\ \E a \in TrainAudio : InList(a, input.tlist) /\ ~InList(a, input.vlist)
                             /\ SplitsOf(TrainWorkdir \o a) = {}
    /\ \E a \in TrainAudio : ~InList(a, input.tlist) /\ SplitsOf(TrainWorkdir \o a) # {}
    /\ Cardinality(SilenceClips) = 2
    /\ Cardinality(TestAudio) = 3

\* C3: in every table get_split_paths returns no path is labelled both train
\* and valid (a shared path makes it abort instead).
C3_TrainValidDisjoint ==
    Returned => \A r \in Rows : ~({"train", "valid"} \subseteq SplitsOf(r.relpath.parts))

\* C4: in the returned table every relative_path occurs in exactly one row:
\* the row count is the number of distinct paths.
C4_OneRowPerPath ==
    Returned => BagCardinality(table) = Cardinality({r.relpath.parts : r \in Rows})

\* C5: in the returned table a path of A that validation_list.txt names is
\* labelled valid and not train, and a path of A that neither list names is
\* labelled train.
C5_ValidationWins ==
    Returned =>
        \A a \in TrainAudio :
            /\ InList(a, input.vlist) =>
                 "valid" \in SplitsOf(TrainWorkdir \o a)
                 /\ "train" \notin SplitsOf(TrainWorkdir \o a)
            /\ (~InList(a, input.vlist) /\ ~InList(a, input.tlist)) =>
                 "train" \in SplitsOf(TrainWorkdir \o a)

C5_Witness ==
    /\ Returned
    /\ \E a \in TrainAudio : InList(a, input.vlist) /\ InList(a, input.tlist)
    /\ \E a \in TrainAudio : ~InList(a, input.vlist) /\ ~InList(a, input.tlist)

\* C7: every row's label is its parent folder's name when that is a target
\* word or _silence_, and _unknown_ otherwise; no other name is ever a label.
C7_LabelClosure ==
    pc = "meta_done" =>
        \A r \in Rows :
            LET parent == r.relpath.parts[Len(r.relpath.parts) - 1]
            IN  /\ r.label \in WORDS \cup {UNKNOWN, SILENCE}
                /\ (parent \in WORDS \cup {SILENCE} => r.label = parent)
                /\ (parent \notin WORDS \cup {SILENCE} => r.label = UNKNOWN)

C7_Witness ==
    /\ pc = "meta_done"
    /\ \E r \in Rows : r.label = <<"on">>
    /\ \E r \in Rows : r.label = SILENCE /\ r.split = "train"
    /\ \E r \in Rows : r.label = SILENCE /\ r.split = "test"
    /\ \E r \in Rows : r.label = UNKNOWN /\ r.relpath.parts[Len(r.relpath.parts) - 1] = <<"bed">>
    /\ \E r \in Rows : r.label = UNKNOWN /\ r.relpath.parts[Len(r.relpath.parts) - 1] = UNKNOWN

\* C10: in the returned table every generated silence clip has exactly one
\* split: valid when its source recording is running_tap.wav, train otherwise.
C10_SilenceSplit ==
    Returned =>
        \A c \in work.clips :
            SplitsOf(TrainWorkdir \o <<SILENCE, c.file>>) =
                IF c.src = Wav(<<"running_tap">>) THEN {"valid"} ELSE {"train"}

----------------------------------------------------------------------------
(* Claims about get_subsample_key *)

\* s and t are equal up to and including a "-nohash-", and differ after it
DifferAfterMarker(s, t) ==
    /\ s # t
    /\ \E k \in DOMAIN s \cap DOMAIN t :
         s[k] = NOHASH /\ SubSeq(s, 1, k) = SubSeq(t, 1, k)

\* p is s with everything from the first "-nohash-" on removed
IsSpeakerPrefix(p, s) ==
    /\ Len(p) <= Len(s)
    /\ p = SubSeq(s, 1, Len(p))
    /\ \A i \in DOMAIN p : p[i] # NOHASH
    /\ (Len(p) < Len(s) => s[Len(p) + 1] = NOHASH)

\* every call returned (stable_hash(speaker id), stable_hash(slug)), and calls
\* on one slug agree, in one process and across a restart
KeysAreHashes ==
    /\ \A i \in DOMAIN keyLog :
         /\ keyLog[i].slug \in DOMAIN hashmemo
         /\ keyLog[i].subsample_key[2] = hashmemo[keyLog[i].slug]
         /\ \A p \in DOMAIN hashmemo :
              IsSpeakerPrefix(p, keyLog[i].slug) =>
                 keyLog[i].subsample_key[1] = hashmemo[p]
         /\ \E p \in DOMAIN hashmemo : IsSpeakerPrefix(p, keyLog[i].slug)
    /\ \A i, j \in DOMAIN keyLog :
         keyLog[i].slug = keyLog[j].slug =>
            keyLog[i].subsample_key = keyLog[j].subsample_key

====
